---- MODULE Spec2Model ----
(***************************************************************************)
(* A model of the research-loop engine of seekdeep (src/seekdeep_core.py): *)
(* the breadth-first gap-queue walk deep_search, its helpers, and the      *)
(* text parsing of process_llm_calls.  Python strings are TLA+ strings;    *)
(* the string functions the code uses (split, strip, lower, in, repr) are  *)
(* operators computed character by character.                              *)
(***************************************************************************)
EXTENDS Integers, Sequences, FiniteSets, TLC

(***************************************************************************)
(* Python string primitives                                                *)
(***************************************************************************)

CharAt(s, i) == SubSeq(s, i, i)

\* is sub found in s at index i
At(s, sub, i) == SubSeq(s, i, i + Len(sub) - 1) = sub

\* index of the first occurrence of sub in s (s.find(sub) + 1); 0 when absent
Find(s, sub) ==
    LET hits == {i \in 1..(Len(s) - Len(sub) + 1) : At(s, sub, i)}
    IN  IF hits = {} THEN 0 ELSE CHOOSE i \in hits : \A j \in hits : i <= j

\* Python `sub in s`
Contains(s, sub) == \E i \in 1..(Len(s) - Len(sub) + 1) : At(s, sub, i)

\* the characters str.strip() removes (those a TLA+ string can hold)
IsSpace(c) == c \in {" ", "\n", "\t", "\r", "\f"}

\* Python s.strip(): from the first to the last character that is no space
Strip(s) ==
    LET keep == {i \in 1..Len(s) : ~IsSpace(CharAt(s, i))}
    IN  IF keep = {} THEN ""
        ELSE SubSeq(s, CHOOSE i \in keep : \A j \in keep : i <= j,
                       CHOOSE i \in keep : \A j \in keep : j <= i)

\* the pieces of s.split(sep) lie between the occurrences of sep, found from
\* left to right without overlap; for the one-character separators the code
\* uses these are all the positions where sep occurs
SepPositions(s, sep) == {i \in 1..(Len(s) - Len(sep) + 1) : At(s, sep, i)}

\* Python s.split(sep) for a separator of one character: always at least one piece
Split(s, sep) ==
    LET at == SepPositions(s, sep)
        n == Cardinality(at)
        nth(k) == CHOOSE i \in at : Cardinality({j \in at : j <= i}) = k
    IN  [k \in 1..(n + 1) |->
            SubSeq(s, IF k = 1 THEN 1 ELSE nth(k - 1) + 1,
                      IF k = n + 1 THEN Len(s) ELSE nth(k) - 1)]

\* Python s.split(sep, 1)[1] (only used where sep is in s)
AfterFirst(s, sep) == SubSeq(s, Find(s, sep) + Len(sep), Len(s))

UpperChars == "ABCDEFGHIJKLMNOPQRSTUVWXYZ"
LowerChars == "abcdefghijklmnopqrstuvwxyz"

\* the lower-case letter of every upper-case letter
LowerOf ==
    [c \in {CharAt(UpperChars, i) : i \in 1..Len(UpperChars)} |->
        CharAt(LowerChars, Find(UpperChars, c))]

LowerChar(c) == IF c \in DOMAIN LowerOf THEN LowerOf[c] ELSE c

\* Python `sub in s.lower()`, for a sub without upper-case letters
ContainsLower(s, sub) ==
    \E i \in 1..(Len(s) - Len(sub) + 1) :
        \A j \in 1..Len(sub) : LowerChar(CharAt(s, i + j - 1)) = CharAt(sub, j)

IsDigit(c) == Contains("0123456789", c)

\* re.match(r'^\d+\.', line): one or more digits, then a dot, at the start
MatchNumbered(line) ==
    \E k \in 1..(Len(line) - 1) :
        /\ \A j \in 1..k : IsDigit(CharAt(line, j))
        /\ CharAt(line, k + 1) = "."

\* sep.join(parts)
RECURSIVE Join(_, _)
Join(parts, sep) ==
    IF Len(parts) = 0 THEN ""
    ELSE IF Len(parts) = 1 THEN parts[1]
    ELSE parts[1] \o sep \o Join(Tail(parts), sep)

\* the length of what repr() makes of one character inside quotes `quote`
ReprCharLen(c, quote) ==
    IF c \in {"\\", "\n", "\t", "\r", quote} THEN 2
    ELSE IF c = "\f" THEN 4
    ELSE 1

\* len(repr(s)) of a str: repr quotes with " only when s holds ' and no "
ReprLen(s) ==
    LET quote == IF Contains(s, "'") /\ ~Contains(s, "\"") THEN "\"" ELSE "'"
    IN  2 + Len(s)
          + Cardinality({i \in 1..Len(s) : ReprCharLen(CharAt(s, i), quote) = 2})
          + 3 * Cardinality({i \in 1..Len(s) : ReprCharLen(CharAt(s, i), quote) = 4})

RECURSIVE ReprLenSum(_)
ReprLenSum(seq) ==
    IF Len(seq) = 0 THEN 0 ELSE ReprLen(Head(seq)) + ReprLenSum(Tail(seq))

\* len(str(list_of_str)): brackets, the items' repr, ", " between them
StrListLen(seq) ==
    2 + ReprLenSum(seq) + (IF Len(seq) > 1 THEN 2 * (Len(seq) - 1) ELSE 0)

\* Optional[str]
None == [isNone |-> TRUE, value |-> ""]
Some(s) == [isNone |-> FALSE, value |-> s]
\* truthiness of an Optional[str]
Truthy(o) == ~o.isNone /\ o.value # ""

\* len(repr(x)) of an Optional[str]
ReprOptLen(o) == IF o.isNone THEN Len("None") ELSE ReprLen(o.value)

(***************************************************************************)
(* Token Estimator and Context Budgeter                                    *)
(***************************************************************************)

\* estimate_tokens of a text of n characters: n // 4 + 1
tokens_of_length(n) == n \div 4 + 1

\* estimate_tokens: len(text) // 4 + 1
estimate_tokens(text) == tokens_of_length(Len(text))

reserved_tokens == 500

\* mutant: nothing is reserved for the response
available_budget_no_reserve(budget) == budget

\* available_budget of trim_context_to_budget
available_budget(budget) ==
    IF budget - reserved_tokens > 500 THEN budget - reserved_tokens ELSE 500

formatted_entry(item) == "Question: " \o item.question \o "\nContext: " \o item.context

Reverse(seq) == [i \in 1..Len(seq) |-> seq[Len(seq) + 1 - i]]

\* mutant: the walk stops at the first entry that does not fit
RECURSIVE included_until_overflow(_, _, _, _)
included_until_overflow(prioritized_items, i, current_token_count, avail) ==
    IF i > Len(prioritized_items) THEN <<>>
    ELSE LET entry == formatted_entry(prioritized_items[i])
             entry_tokens == estimate_tokens(entry)
         IN  IF current_token_count + entry_tokens <= avail
             THEN <<entry>> \o included_until_overflow(prioritized_items, i + 1,
                                       current_token_count + entry_tokens, avail)
             ELSE <<>>

\* the loop of trim_context_to_budget over prioritized_items from index i on:
\* an entry is appended when the running count plus its cost fits, else skipped
RECURSIVE included_contexts(_, _, _, _)
included_contexts(prioritized_items, i, current_token_count, avail) ==
    IF i > Len(prioritized_items) THEN <<>>
    ELSE LET entry == formatted_entry(prioritized_items[i])
             entry_tokens == estimate_tokens(entry)
         IN  IF current_token_count + entry_tokens <= avail
             THEN <<entry>> \o included_contexts(prioritized_items, i + 1,
                                                 current_token_count + entry_tokens, avail)
             ELSE included_contexts(prioritized_items, i + 1, current_token_count, avail)

\* mutant: only the most recent item is considered
trim_most_recent_only(context_items, budget) ==
    Join(Reverse(included_contexts(
             SubSeq(Reverse(context_items), 1, IF Len(context_items) > 0 THEN 1 ELSE 0),
             1, 0, available_budget(budget))), "\n\n")

trim_context_to_budget(context_items, budget) ==
    Join(Reverse(included_contexts(Reverse(context_items), 1, 0,
                                   available_budget(budget))), "\n\n")

(***************************************************************************)
(* process_llm_calls: what each mode makes of the text generate() returned *)
(***************************************************************************)

\* the thinking segment is dropped when both markers occur
StripThinking(result) ==
    IF Contains(result, "<think>") /\ Contains(result, "</think>")
    THEN Strip(AfterFirst(result, "</think>"))
    ELSE result

\* lines = [line.strip() for line in result.split('\n') if line.strip()]
StrippedLines(lines) ==
    SelectSeq([i \in DOMAIN lines |-> Strip(lines[i])], LAMBDA line : line # "")

\* mutant: a question of exactly ten characters is kept too
IsSubQuestionAtLeastTen(line) ==
    MatchNumbered(line) \/ (Contains(line, "?") /\ Len(line) >= 10)

\* the line test of decompose mode
IsSubQuestion(line) == MatchNumbered(line) \/ (Contains(line, "?") /\ Len(line) > 10)

\* the lines decompose mode keeps
KeepQuestions(lines) == SelectSeq(lines, IsSubQuestion)

\* mutant: no fallback when no line is kept
ParseDecomposeNoFallback(raw, q) ==
    KeepQuestions(StrippedLines(Split(StripThinking(raw), "\n")))

\* mode == "decompose"
ParseDecompose(raw, q) ==
    LET questions == KeepQuestions(StrippedLines(Split(StripThinking(raw), "\n")))
    IN  IF Len(questions) > 0 THEN questions ELSE <<q>>

\* mode == "expand", "answer" or "beast": the text as generated
ParseText(raw) == StripThinking(raw)

\* mutant: "satisfactory" is looked for as written
IsCompleteCaseSensitive(result) ==
    Contains(result, "satisfactory") \/ Contains(result, "PASS")

IsComplete(result) == ContainsLower(result, "satisfactory") \/ Contains(result, "PASS")

IsSuggestLine(line) == ContainsLower(line, "suggest") /\ Contains(line, ":")

\* first loop of evaluate mode: the first "suggest...:" line decides, then break
SuggestByColon(lines) ==
    IF \E i \in 1..Len(lines) : IsSuggestLine(lines[i])
    THEN LET i == CHOOSE k \in 1..Len(lines) :
                     /\ IsSuggestLine(lines[k])
                     /\ \A j \in 1..(k - 1) : ~IsSuggestLine(lines[j])
         IN  Some(Strip(AfterFirst(lines[i], ":")))
    ELSE None

IsQuestionLine(line) == Contains(line, "?") /\ Len(line) > 15

\* second loop of evaluate mode
SuggestByQuestionMark(lines) ==
    IF \E i \in 1..Len(lines) : IsQuestionLine(lines[i])
    THEN LET i == CHOOSE k \in 1..Len(lines) :
                     /\ IsQuestionLine(lines[k])
                     /\ \A j \in 1..(k - 1) : ~IsQuestionLine(lines[j])
         IN  Some(Strip(lines[i]))
    ELSE None

\* mutant: a line with a question mark is preferred to a "suggest...:" line
SuggestedQuestionFirst(result, q) ==
    LET lines == Split(result, "\n")
        b == SuggestByQuestionMark(lines)
        a == IF Truthy(b) THEN b ELSE SuggestByColon(lines)
    IN  IF Truthy(a) THEN a ELSE Some("more details about " \o q)

Suggested(result, q) ==
    LET lines == Split(result, "\n")
        a == SuggestByColon(lines)
        b == IF Truthy(a) THEN a ELSE SuggestByQuestionMark(lines)
    IN  IF Truthy(b) THEN b ELSE Some("more details about " \o q)

\* mode == "evaluate"
ParseEvaluate(raw, q) ==
    LET result == StripThinking(raw)
    IN  IF IsComplete(result)
        THEN [status |-> "complete", suggested |-> None]
        ELSE [status |-> "incomplete", suggested |-> Suggested(result, q)]

\* len(str(eval_result)) of {'status': ..., 'suggested': ...}
StrEvalLen(e) ==
    Len("{'status': ") + ReprLen(e.status) + Len(", 'suggested': ")
    + ReprOptLen(e.suggested) + Len("}")

(***************************************************************************)
(* The helpers of deep_search                                              *)
(***************************************************************************)

\* _decompose_main_question, given the text generate() returned
decompose_main_question(raw, q) ==
    LET sub_questions == ParseDecompose(raw, q)
    IN  [sub_questions |-> sub_questions,
         token_usage |-> tokens_of_length(StrListLen(sub_questions)) + 200]

\* _expand_search_query, given the text generate() returned
expand_search_query(raw, q) ==
    LET search_query == ParseText(raw)
    IN  [search_query |-> search_query,
         token_usage |-> estimate_tokens(search_query) + 100]

Texts(results) == [i \in DOMAIN results |-> results[i].text]

\* Python s[:n]
SliceTo(s, n) ==
    IF n >= 0 THEN SubSeq(s, 1, IF n < Len(s) THEN n ELSE Len(s))
    ELSE SubSeq(s, 1, IF Len(s) + n > 0 THEN Len(s) + n ELSE 0)

\* mutant: the joined text is returned whole, whatever the budget
perform_search_untruncated(results, budget) ==
    LET joined == Join(Texts(results), "\n\n")
        half == budget \div 2
    IN  [search_results |-> results, context_str |-> joined,
         context_tokens |-> IF estimate_tokens(joined) > half THEN half
                            ELSE estimate_tokens(joined)]

\* _perform_search, given the records search() returned
perform_search(results, budget) ==
    LET joined == Join(Texts(results), "\n\n")
        half == budget \div 2
    IN  IF estimate_tokens(joined) > half
        THEN [search_results |-> results, context_str |-> SliceTo(joined, half * 4),
              context_tokens |-> half]
        ELSE [search_results |-> results, context_str |-> joined,
              context_tokens |-> estimate_tokens(joined)]

\* the token usage _generate_and_evaluate reports
answer_tokens(ans, e) ==
    estimate_tokens(ans) + 150 + tokens_of_length(StrEvalLen(e)) + 100

NoInformation == "No relevant information found."

\* mutant: an empty context is passed to the prompt as it is
ContextWithoutPlaceholder(context) == context

\* context or "No relevant information found."
ContextOrPlaceholder(context) == IF context = "" THEN NoInformation ELSE context

\* mutant: the remaining budget has no floor
remaining_budget_no_floor(budget, current_usage) == budget - current_usage

\* remaining_budget of _activate_beast_mode
remaining_budget(budget, current_usage) ==
    IF budget - current_usage > 1000 THEN budget - current_usage ELSE 1000

\* full_context of _activate_beast_mode
full_context(know, budget, current_usage) ==
    IF Len(know) > 0
    THEN trim_context_to_budget(know, remaining_budget(budget, current_usage))
    ELSE NoInformation

\* the budgets _activate_beast_mode hands to trim_context_to_budget: one call when
\* there is knowledge, none otherwise
trim_budgets(know, budget, current_usage) ==
    IF Len(know) > 0 THEN <<remaining_budget(budget, current_usage)>> ELSE <<>>

Explored(know) == [i \in DOMAIN know |-> "Question explored: " \o know[i].question]

history_str(know) == Join(Explored(know), "\n")

\* the token usage _activate_beast_mode reports
beast_tokens(know, context_text, beast_result) ==
    (IF Len(know) > 0 THEN estimate_tokens(context_text) ELSE 0)
    + estimate_tokens(beast_result) + 200

InSeq(e, seq) == \E i \in 1..Len(seq) : seq[i] = e

\* mutant: the queue is not consulted before a sub-question is queued
EnqueueNewNoQueueCheck(queue, sub_questions, visited) ==
    LET fresh == SelectSeq(sub_questions, LAMBDA q : ~InSeq(q, visited))
    IN  queue \o fresh

\* mutant: the visited list is not consulted before a sub-question is queued
RECURSIVE EnqueueNewNoVisitedCheck(_, _, _)
EnqueueNewNoVisitedCheck(queue, sub_questions, visited) ==
    IF Len(sub_questions) = 0 THEN queue
    ELSE LET q == sub_questions[1]
         IN  EnqueueNewNoVisitedCheck(IF ~InSeq(q, queue) THEN Append(queue, q) ELSE queue,
                                      Tail(sub_questions), visited)

\* for q in sub_questions: if q not in visited_queries and q not in gaps: gaps.append(q)
RECURSIVE EnqueueNew(_, _, _)
EnqueueNew(queue, sub_questions, visited) ==
    IF Len(sub_questions) = 0 THEN queue
    ELSE LET q == sub_questions[1]
         IN  EnqueueNew(IF ~InSeq(q, visited) /\ ~InSeq(q, queue)
                        THEN Append(queue, q) ELSE queue,
                        Tail(sub_questions), visited)

\* mutant: the original question is re-queued even when nothing else is pending
RevisitOriginalAlways(queue, q) ==
    IF ~InSeq(q, queue) THEN Append(queue, q) ELSE queue

\* if gaps and question not in gaps: gaps.append(question)
RevisitOriginal(queue, q) ==
    IF Len(queue) > 0 /\ ~InSeq(q, queue) THEN Append(queue, q) ELSE queue

\* mutant: a follow-up is tried next, whether or not it was visited before
EnqueueSuggestedRetries(queue, e, visited) ==
    IF Truthy(e.suggested) /\ ~InSeq(e.suggested.value, queue)
    THEN <<e.suggested.value>> \o queue
    ELSE queue

\* mutant: the follow-up jumps the queue
EnqueueSuggestedAtHead(queue, e, visited) ==
    IF /\ Truthy(e.suggested)
       /\ ~InSeq(e.suggested.value, visited)
       /\ ~InSeq(e.suggested.value, queue)
    THEN <<e.suggested.value>> \o queue
    ELSE queue

\* mutant: a follow-up is queued although it was visited before
EnqueueSuggestedNoVisitedCheck(queue, e, visited) ==
    IF Truthy(e.suggested) /\ ~InSeq(e.suggested.value, queue)
    THEN Append(queue, e.suggested.value)
    ELSE queue

\* the follow-up of an evaluation is queued when it is truthy, unvisited and not queued
EnqueueSuggested(queue, e, visited) ==
    IF /\ Truthy(e.suggested)
       /\ ~InSeq(e.suggested.value, visited)
       /\ ~InSeq(e.suggested.value, queue)
    THEN Append(queue, e.suggested.value)
    ELSE queue

(***************************************************************************)
(* Bounds and the inputs the services may answer with                      *)
(***************************************************************************)

\* max_iterations ranges over -1..MaxIterations: the code does not validate it
MaxIterations == 3
\* at most this many generation calls of a run answer with a non-success
\* response (the empty string of generate)
MaxFailures == 1

Questions == {"abc", "What is X and Y?"}
TokenBudgets == {16, 5000}

SubA == "1. What is A?"
SubB == "What is B in detail?"

\* texts the generation service may return to the decompose prompt
DecomposeResponses(q) ==
    { "",
      "Some filler.",
      SubB \o "\n",
      "<think>plan</think>\n" \o SubA \o "\n" \o q \o "\n" \o SubA \o "\nWhy?\n  " \o SubB }

\* texts the generation service may return to the expand prompt
ExpandResponses(q) == { "", "<think>terms</think> " \o q \o " synonyms" }

\* texts the generation service may return to the answer prompt
AnswerResponses(q) == { "", "Answer to " \o q }

\* texts the generation service may return to the evaluate prompt
EvaluateResponses(q, cur) ==
    { "",
      "Relevance: PASS\n...this is satisfactory.",
      "Relevance: FAIL\nSuggest: more on " \o cur \o "\n",
      "Not enough.\n" \o SubB,
      "Suggestion: " \o q }

\* texts the generation service may return to the synthesis prompt
BeastResponses == { "", "A comprehensive answer." }

Doc(i, text) == [text |-> text, metadata |-> [source |-> i], id |-> i]

\* ranked records the Document Index may return
SearchResponses ==
    { <<>>,
      <<Doc("doc_0", "A is the first thing."), Doc("doc_1", "B is the second.")>> }

(***************************************************************************)
(* deep_search as a state machine: one action per stretch of code between  *)
(* two service calls                                                       *)
(***************************************************************************)

VARIABLES
    question,            \* argument: the original question
    max_iterations,      \* argument
    token_budget,        \* argument
    pc,                  \* where the run is
    step,
    visited_queries,
    search_history,
    knowledge,
    research_trail,
    current_token_usage,
    gaps,
    current_question,
    sub_questions,       \* what _decompose_main_question returned (step 1)
    expanded_query,
    context,             \* what _perform_search returned in this step
    answer,
    eval_result,
    result,              \* the returned DeepSearchResult (once pc = "done")
    calls,               \* the service calls made so far, in order
    failures,            \* generation calls answered with a non-success response
    fn,                  \* the function called, when one is called on its own
    fn_args,             \* its arguments
    fn_value,            \* what it returned (once pc = "returned")
    progress_callback,   \* argument: is a progress callback supplied
    progress,            \* what each invocation of the callback could observe
    iteration,           \* deep_research: the iterations completed
    current_query,       \* deep_research: the question of the iteration
    latest_answer,       \* deep_research
    memory               \* deep_research: sub_questions, search_history, answer_attempts

vars == <<question, max_iterations, token_budget, pc, step, visited_queries,
          search_history, knowledge, research_trail, current_token_usage, gaps,
          current_question, sub_questions, expanded_query, context, answer,
          eval_result, result, calls, failures, fn, fn_args, fn_value,
          progress_callback, progress, iteration, current_query, latest_answer,
          memory>>

\* the locals of deep_research, which deep_search and its functions do not have
research == <<iteration, current_query, latest_answer, memory>>

args == <<question, max_iterations, token_budget, progress_callback, fn, fn_args,
          fn_value, research>>
trail == <<visited_queries, search_history, knowledge, research_trail>>
locals == <<current_question, sub_questions, expanded_query, context, answer,
            eval_result>>

NoContext == [search_results |-> <<>>, context_str |-> "", context_tokens |-> 0]
NoEval == [status |-> "", suggested |-> None]
NoMemory == [sub_questions |-> <<>>, search_history |-> <<>>, answer_attempts |-> <<>>]
NoResearch ==
    /\ iteration = 0
    /\ current_query = ""
    /\ latest_answer = ""
    /\ memory = NoMemory

NoResult == [answer |-> "", iterations |-> 0, gap_questions |-> <<>>,
             search_history |-> <<>>, research_trail |-> <<>>, beast_mode |-> "None"]

\* the state after lines 608-617, for a token_budget of the set budgets and a
\* progress_callback that is supplied (TRUE) or not as the set callbacks says
InitArgs(budgets, callbacks) ==
    /\ question \in Questions
    /\ max_iterations \in -1..MaxIterations
    /\ token_budget \in budgets
    /\ progress_callback \in callbacks
    /\ progress = <<>>
    /\ NoResearch
    /\ pc = "loop"
    /\ step = 0
    /\ visited_queries = <<>>
    /\ search_history = <<>>
    /\ knowledge = <<>>
    /\ research_trail = <<>>
    /\ current_token_usage = 0
    /\ gaps = <<question>>
    /\ current_question = ""
    /\ sub_questions = <<>>
    /\ expanded_query = ""
    /\ context = NoContext
    /\ answer = ""
    /\ eval_result = NoEval
    /\ result = NoResult
    /\ calls = <<>>
    /\ failures = 0
    /\ fn = "deep_search"
    /\ fn_args = <<>>
    /\ fn_value = <<>>

\* a run without progress callback (the default)
InitWith(budgets) == InitArgs(budgets, {FALSE})

Init == InitWith(TokenBudgets)

\* mutant: the iterations of the result are counted from zero
DeepSearchResultCountsFromZero(final_answer, n, visited, history, rtrail, flag) ==
    [answer |-> final_answer, iterations |-> n - 1, gap_questions |-> visited,
     search_history |-> history, research_trail |-> rtrail, beast_mode |-> flag]

\* the dictionary deep_search returns
DeepSearchResult(final_answer, n, visited, history, rtrail, flag) ==
    [answer |-> final_answer, iterations |-> n, gap_questions |-> visited,
     search_history |-> history, research_trail |-> rtrail, beast_mode |-> flag]

\* mutant: every result is flagged as synthesized
beast_mode_always_true == "True"

\* "beast_mode": None of the result returned on a "complete" verdict
beast_mode_on_complete == "None"

\* "beast_mode": True of the result returned after beast mode
beast_mode_on_synthesis == "True"

\* generate() may answer with raw: a text, or "" on a non-success response
MayAnswer(raw) == raw = "" => failures < MaxFailures

\* generate() answers with text, or with "" on a non-success response
Generated(raw) ==
    /\ MayAnswer(raw)
    /\ failures' = IF raw = "" THEN failures + 1 ELSE failures

\* mutant: the loop also stops once the usage counter has passed the budget
LoopConditionWithinBudget(queue, n, limit) ==
    Len(queue) > 0 /\ n < limit /\ current_token_usage <= token_budget

\* mutant: the first step is taken whatever the limit (a do-while loop)
LoopConditionAtLeastOnce(queue, n, limit) == Len(queue) > 0 /\ (n < limit \/ n = 0)

\* mutant: the step test is off by one
LoopConditionOffByOne(queue, n, limit) == Len(queue) > 0 /\ n <= limit

\* mutant: the loop runs as long as gaps are pending
LoopConditionNoLimit(queue, n, limit) == Len(queue) > 0

\* while gaps and step < max_iterations
LoopCondition(queue, n, limit) == Len(queue) > 0 /\ n < limit

\* mutant: gaps.pop() takes the most recent gap (depth-first)
PopGapLast(queue) ==
    [current |-> queue[Len(queue)], rest |-> SubSeq(queue, 1, Len(queue) - 1)]

\* gaps.pop(0)
PopGap(queue) == [current |-> Head(queue), rest |-> Tail(queue)]

\* mutant: the callback is invoked twice in a step
invoke_callback_twice(supplied, log, observed) ==
    IF supplied THEN log \o <<observed, observed>> ELSE log

\* if progress_callback: progress_callback()
invoke_callback(supplied, log, observed) ==
    IF supplied THEN Append(log, observed) ELSE log

\* mutant: every step decomposes its question
AfterDequeueAlwaysDecomposes(n) == "decompose"

\* if step == 1: decompose; every later step starts with expand
AfterDequeue(n) == IF n = 1 THEN "decompose" ELSE "expand"

\* one more turn of the loop: pop the head, mark it visited, count the step
Dequeue ==
    /\ pc = "loop"
    /\ LoopCondition(gaps, step, max_iterations)
    /\ current_question' = PopGap(gaps).current
    /\ gaps' = PopGap(gaps).rest
    /\ visited_queries' = Append(visited_queries, PopGap(gaps).current)
    /\ progress' = invoke_callback(progress_callback, progress,
                        [step |-> step, gaps |-> PopGap(gaps).rest,
                         visited |-> Append(visited_queries, PopGap(gaps).current),
                         calls |-> Len(calls)])
    /\ step' = step + 1
    /\ pc' = AfterDequeue(step + 1)
    /\ UNCHANGED <<args, search_history, knowledge, research_trail, current_token_usage,
                   sub_questions, expanded_query, context, answer, eval_result, result,
                   calls, failures>>

\* the loop condition fails: on to beast mode
ExitLoop ==
    /\ pc = "loop"
    /\ ~LoopCondition(gaps, step, max_iterations)
    /\ pc' = "beast"
    /\ UNCHANGED <<args, progress, trail, locals, step, current_token_usage, gaps, result, calls,
                   failures>>

\* step == 1: decompose the question and fill the queue
Decompose ==
    /\ pc = "decompose"
    /\ \E raw \in DecomposeResponses(question) :
         \E d \in {decompose_main_question(raw, current_question)} :
             /\ Generated(raw)
             /\ sub_questions' = d.sub_questions
             /\ current_token_usage' = current_token_usage + d.token_usage
             /\ gaps' = RevisitOriginal(
                            EnqueueNew(gaps, d.sub_questions, visited_queries), question)
             /\ calls' = Append(calls, [op |-> "decompose", step |-> step,
                                        question |-> current_question,
                                        response |-> raw])
    /\ pc' = "expand"
    /\ UNCHANGED <<args, progress, trail, step, current_question, expanded_query, context, answer,
                   eval_result, result>>

\* expand the dequeued question into a search query
Expand ==
    /\ pc = "expand"
    /\ \E raw \in ExpandResponses(current_question) :
         \E e \in {expand_search_query(raw, current_question)} :
             /\ Generated(raw)
             /\ expanded_query' = e.search_query
             /\ current_token_usage' = current_token_usage + e.token_usage
             /\ calls' = Append(calls, [op |-> "expand", step |-> step,
                                        question |-> current_question,
                                        response |-> raw])
    /\ pc' = "search"
    /\ UNCHANGED <<args, progress, trail, step, gaps, current_question, sub_questions, context, answer,
                   eval_result, result>>

\* mutant: the first step answers and evaluates too
AfterSearchAlwaysAnswers(n) == "answer"

\* if step > 1: generate and evaluate an answer; else the step ends
AfterSearch(n) == IF n > 1 THEN "answer" ELSE "loop"

\* retrieve, record the step in search_history and knowledge; the first step ends
\* here. The Document Index answers with one of responses
Retrieve(responses) ==
    /\ pc = "search"
    /\ \E results \in responses :
         \E r \in {perform_search(results, token_budget)} :
             /\ context' = r
             /\ current_token_usage' = current_token_usage + r.context_tokens
             /\ search_history' = Append(search_history,
                                    [query |-> current_question, results |-> results])
             /\ knowledge' = Append(knowledge,
                                    [question |-> current_question,
                                     context |-> r.context_str])
             /\ calls' = Append(calls, [op |-> "search", step |-> step,
                                        query |-> expanded_query])
    /\ pc' = AfterSearch(step)
    /\ UNCHANGED <<args, progress, visited_queries, research_trail, step, gaps, current_question,
                   sub_questions, expanded_query, answer, eval_result, result, failures>>

Search == Retrieve(SearchResponses)

\* _generate_and_evaluate, first half: the answer to the dequeued question
Answer ==
    /\ pc = "answer"
    /\ \E raw \in AnswerResponses(current_question) :
         /\ Generated(raw)
         /\ answer' = ParseText(raw)
         /\ calls' = Append(calls, [op |-> "answer", step |-> step,
                                    question |-> current_question,
                                    context |-> ContextOrPlaceholder(context.context_str),
                                    response |-> raw])
    /\ pc' = "evaluate"
    /\ UNCHANGED <<args, progress, trail, step, current_token_usage, gaps, current_question,
                   sub_questions, expanded_query, context, eval_result, result>>

\* mutant: the answer is evaluated against the step's own question
evaluate_against_current(original, current) == current

\* the question _generate_and_evaluate evaluates the answer against: its first
\* parameter, to which deep_search passes the original question
evaluate_against(original, current) == original

\* mutant: a "complete" verdict leaves the loop but not the function
AfterEvaluateFallsThrough(e) == IF e.status = "complete" THEN "beast" ELSE "loop"

\* mutant: the verdict is not looked at
AfterEvaluateIgnoresVerdict(e) == "loop"

\* after the evaluation: return on "complete", else sleep and loop
AfterEvaluate(e) == IF e.status = "complete" THEN "done" ELSE "loop"

\* _generate_and_evaluate, second half, and the rest of the step: return on
\* "complete", else queue the follow-up and loop
Evaluate ==
    /\ pc = "evaluate"
    /\ \E raw \in EvaluateResponses(question, current_question) :
         \E against \in {evaluate_against(question, current_question)} :
         \E e \in {ParseEvaluate(raw, against)} :
         \E t \in {Append(research_trail,
                          [question |-> current_question, expanded_query |-> expanded_query,
                           search_results |-> context.search_results, answer |-> answer])} :
             /\ Generated(raw)
             /\ eval_result' = e
             /\ current_token_usage' = current_token_usage + answer_tokens(answer, e)
             /\ research_trail' = t
             /\ calls' = Append(calls, [op |-> "evaluate", step |-> step,
                                        question |-> against, answer |-> answer,
                                        response |-> raw, verdict |-> e.status,
                                        suggested |-> e.suggested])
             /\ pc' = AfterEvaluate(e)
             /\ IF e.status = "complete"
                THEN /\ result' = DeepSearchResult(answer, step, visited_queries,
                                         search_history, t, beast_mode_on_complete)
                     /\ gaps' = gaps
                ELSE /\ gaps' = EnqueueSuggested(gaps, e, visited_queries)
                     /\ result' = result
    /\ UNCHANGED <<args, progress, visited_queries, search_history, knowledge, step,
                   current_question, sub_questions, expanded_query, context, answer>>

\* _activate_beast_mode and the final return
Beast ==
    /\ pc = "beast"
    /\ \E raw \in BeastResponses :
         \E beast_result \in {ParseText(raw)} :
         \E ctx \in {full_context(knowledge, token_budget, current_token_usage)} :
             /\ Generated(raw)
             /\ current_token_usage' = current_token_usage
                    + beast_tokens(knowledge, ctx, beast_result)
             /\ calls' = Append(calls, [op |-> "beast", step |-> step,
                                        question |-> question,
                                        usage |-> current_token_usage,
                                        trim_budgets |-> trim_budgets(knowledge,
                                            token_budget, current_token_usage),
                                        full_context |-> ctx,
                                        search_history |-> history_str(knowledge),
                                        response |-> raw])
             /\ result' = DeepSearchResult(beast_result, step, visited_queries,
                               search_history, research_trail, beast_mode_on_synthesis)
    /\ pc' = "done"
    /\ UNCHANGED <<args, progress, trail, locals, step, gaps>>

Next == Dequeue \/ ExitLoop \/ Decompose \/ Expand \/ Search \/ Answer \/ Evaluate \/ Beast

Spec == Init /\ [][Next]_vars

\* the positions of a run at which a service is called
ServiceCalls == {"decompose", "expand", "search", "answer", "evaluate", "beast"}

\* mutant: a failed call of a step is caught and the run synthesizes what it has
AfterRaiseSynthesizes(at) == IF at = "beast" THEN "raised" ELSE "beast"

\* no try/except in deep_search or its helpers: an exception leaves the function
AfterRaise(at) == "raised"

\* the service call the run is at raises (connection refused, malformed JSON): the
\* exception of requests.post, response.json() or collection.query propagates
Raise ==
    /\ pc \in ServiceCalls
    /\ pc' = AfterRaise(pc)
    /\ calls' = Append(calls, [op |-> "raise", step |-> step, at |-> pc])
    /\ UNCHANGED <<args, progress, trail, locals, step, current_token_usage, gaps, result, failures>>

RaisingNext ==
    Dequeue \/ ExitLoop \/ Decompose \/ Expand \/ Search \/ Answer \/ Evaluate \/ Beast
        \/ Raise

RaisingInit == InitWith({5000})

\* deep_search with service calls that may raise
RaisingSpec == RaisingInit /\ [][RaisingNext]_vars

CallbackInit == InitArgs({5000}, BOOLEAN)

\* deep_search called with or without a progress callback
CallbackSpec == CallbackInit /\ [][Next]_vars

\* token_budget is an int the code does not validate: budgets below one token
AnyTokenBudgets == {-10, 0}

AnyBudgetInit == InitWith(AnyTokenBudgets)

\* deep_search run with a budget of AnyTokenBudgets
AnyBudgetSpec == AnyBudgetInit /\ [][Next]_vars

(***************************************************************************)
(* The pure functions of the module, each called on its own with arguments *)
(* drawn from bounded sets                                                 *)
(***************************************************************************)

\* a text of n characters
RECURSIVE Pad(_)
Pad(n) ==
    IF n = 0 THEN ""
    ELSE IF n % 2 = 1 THEN "x" \o Pad(n - 1)
    ELSE LET half == Pad(n \div 2) IN half \o half

\* context_items has at most this many items
MaxItems == 3

\* the lengths of the contexts: with the 21 characters around them the entries
\* cost 100, 250, 400 and 501 estimated tokens
ContextLengths == {378, 978, 1576, 1979}

Items == {[question |-> "q", context |-> Pad(n)] : n \in ContextLengths}

TrimBudgets == {-3, 1000, 1001, 1500}

TrimArgs ==
    [context_items : UNION {[1..n -> Items] : n \in 0..MaxItems},
     token_budget : TrimBudgets]

\* a generated text has at most this many lines
MaxLines == 3

\* what may precede the lines of a generated text: nothing, a thinking segment, or
\* an opening marker that is never closed
ThinkingPrefixes ==
    { "",
      "<think>PASS: I suggest it is satisfactory?</think>\n",
      "<think>" }

\* the texts of up to MaxLines lines of the set lines, behind each prefix
TextsOf(lines) ==
    {prefix \o Join(body, "\n") :
        prefix \in ThinkingPrefixes,
        body \in UNION {[1..n -> lines] : n \in 0..MaxLines}}

\* lines the generation service may answer the evaluate prompt with
EvaluateLines ==
    { "",
      "PASS",
      "Looks Satisfactory.",
      "verdict: pass",
      "Suggestion: dig into B",
      "Suggest:  ",
      "What about the details?",
      "Why so?" }

\* lines the generation service may answer the decompose prompt with
DecomposeLines ==
    { "",
      "12. What is A",
      "1 A?",
      "Why is it?",
      "Why is it so?",
      "  What is B in detail?  " }

EvaluateArgs == [raw : TextsOf(EvaluateLines), question : {"What is X and Y?"}]

DecomposeArgs == [raw : TextsOf(DecomposeLines), question : {"What is X and Y?"}]

FunctionInit ==
    /\ pc = "call"
    /\ \/ fn = "trim_context_to_budget" /\ fn_args \in TrimArgs
       \/ fn = "evaluate" /\ fn_args \in EvaluateArgs
       \/ fn = "decompose" /\ fn_args \in DecomposeArgs
    /\ fn_value = <<>>
    /\ question = ""
    /\ max_iterations = 0
    /\ token_budget = 0
    /\ progress_callback = FALSE
    /\ progress = <<>>
    /\ NoResearch
    /\ step = 0
    /\ visited_queries = <<>>
    /\ search_history = <<>>
    /\ knowledge = <<>>
    /\ research_trail = <<>>
    /\ current_token_usage = 0
    /\ gaps = <<>>
    /\ current_question = ""
    /\ sub_questions = <<>>
    /\ expanded_query = ""
    /\ context = NoContext
    /\ answer = ""
    /\ eval_result = NoEval
    /\ result = NoResult
    /\ calls = <<>>
    /\ failures = 0

\* the variables of a deep_search run, which a call of one function leaves alone
run == <<question, max_iterations, token_budget, progress_callback, progress, research,
         step,
         trail, locals,
         current_token_usage, gaps, result, calls, failures>>

\* trim_context_to_budget(context_items, token_budget)
CallTrim ==
    /\ pc = "call" /\ fn = "trim_context_to_budget"
    /\ fn_value' = trim_context_to_budget(fn_args.context_items, fn_args.token_budget)
    /\ pc' = "returned"
    /\ UNCHANGED <<run, fn, fn_args>>

\* process_llm_calls(question, answer=answer, mode="evaluate"), given the text
\* generate() returned
CallEvaluate ==
    /\ pc = "call" /\ fn = "evaluate"
    /\ fn_value' = ParseEvaluate(fn_args.raw, fn_args.question)
    /\ pc' = "returned"
    /\ UNCHANGED <<run, fn, fn_args>>

\* _decompose_main_question(question), given the text generate() returned
CallDecompose ==
    /\ pc = "call" /\ fn = "decompose"
    /\ fn_value' = decompose_main_question(fn_args.raw, fn_args.question)
    /\ pc' = "returned"
    /\ UNCHANGED <<run, fn, fn_args>>

FunctionNext == CallTrim \/ CallEvaluate \/ CallDecompose

FunctionSpec == FunctionInit /\ [][FunctionNext]_vars

(***************************************************************************)
(* deep_search over documents longer than half the budget                  *)
(***************************************************************************)

LongBudgets == {1000, 3000}

\* a document of 6010 characters
LongText == Pad(6010)

\* ranked records the Document Index may return: texts that together exceed half
\* of every budget of LongBudgets, or a short one
LongSearchResponses ==
    { <<Doc("doc_2", LongText), Doc("doc_1", "B is the second.")>>,
      <<Doc("doc_0", "A is the first thing.")>> }

SearchLong == Retrieve(LongSearchResponses)

LongTextNext ==
    Dequeue \/ ExitLoop \/ Decompose \/ Expand \/ SearchLong \/ Answer \/ Evaluate \/ Beast

LongTextInit == InitWith(LongBudgets)

LongTextSpec == LongTextInit /\ [][LongTextNext]_vars

(***************************************************************************)
(* deep_research: the sequential walk over the sub-questions               *)
(***************************************************************************)

\* the dictionary deep_research returns
DeepResearchResult(final_answer, n, mem, flag) ==
    [answer |-> final_answer, iterations |-> n, memory |-> mem, beast_mode |-> flag]

\* mutant: the walk starts with the question as it was asked
first_query_is_original(subs, original) == original

\* current_query = sub_questions[0] if sub_questions else question
first_query(subs, original) == IF Len(subs) > 0 THEN subs[1] ELSE original

\* _select_next_question
select_next_question(subs, current_iteration, e, original) ==
    IF current_iteration < Len(subs) THEN subs[current_iteration + 1]
    ELSE IF Truthy(e.suggested) THEN e.suggested.value
    ELSE original

\* mutant: a "complete" verdict is looked at before the final iteration is
after_research_step_complete_first(n, limit, is_complete) ==
    IF is_complete THEN "done"
    ELSE IF n = limit - 1 THEN "research_beast"
    ELSE "research_loop"

\* mutant: the final iteration is taken to be iteration == max_iterations
after_research_step_off_by_one(n, limit, is_complete) ==
    IF n = limit THEN "research_beast"
    ELSE IF is_complete THEN "done"
    ELSE "research_loop"

\* after _process_research_step: beast mode in the final iteration, else return
\* on "complete", else the next iteration
after_research_step(n, limit, is_complete) ==
    IF n = limit - 1 THEN "research_beast"
    ELSE IF is_complete THEN "done"
    ELSE "research_loop"

\* "\n\n".join of the texts of the most recent search, "" when there was none
last_context(history) ==
    IF Len(history) > 0 THEN Join(Texts(history[Len(history)].results), "\n\n") ELSE ""

Queries(history) == [i \in DOMAIN history |-> "Query: " \o history[i].query]

\* the variables of deep_search that deep_research does not have
search_only == <<token_budget, progress_callback, progress, fn, fn_args, fn_value, step,
                 trail, current_token_usage, gaps, current_question, context>>

ResearchInit ==
    /\ question \in Questions
    /\ max_iterations \in -1..MaxIterations
    /\ pc = "research_decompose"
    /\ NoResearch
    /\ token_budget = 0
    /\ progress_callback = FALSE
    /\ progress = <<>>
    /\ step = 0
    /\ visited_queries = <<>>
    /\ search_history = <<>>
    /\ knowledge = <<>>
    /\ research_trail = <<>>
    /\ current_token_usage = 0
    /\ gaps = <<>>
    /\ current_question = ""
    /\ sub_questions = <<>>
    /\ expanded_query = ""
    /\ context = NoContext
    /\ answer = ""
    /\ eval_result = NoEval
    /\ result = NoResult
    /\ calls = <<>>
    /\ failures = 0
    /\ fn = "deep_research"
    /\ fn_args = <<>>
    /\ fn_value = <<>>

\* lines 507-523: decompose the main question and select the first query
ResearchDecompose ==
    /\ pc = "research_decompose"
    /\ \E raw \in DecomposeResponses(question) :
         \E d \in {decompose_main_question(raw, question)} :
             /\ Generated(raw)
             /\ sub_questions' = d.sub_questions
             /\ memory' = [memory EXCEPT !.sub_questions = d.sub_questions]
             /\ current_query' = first_query(d.sub_questions, question)
             /\ calls' = Append(calls, [op |-> "decompose", step |-> 1,
                                        question |-> question, response |-> raw])
    /\ iteration' = 0
    /\ latest_answer' = ""
    /\ pc' = "research_loop"
    /\ UNCHANGED <<question, max_iterations, search_only, expanded_query, answer,
                   eval_result, result>>

\* while iteration < max_iterations: one more iteration
ResearchIterate ==
    /\ pc = "research_loop"
    /\ iteration < max_iterations
    /\ pc' = "research_expand"
    /\ UNCHANGED <<question, max_iterations, search_only, research, sub_questions,
                   expanded_query, answer, eval_result, result, calls, failures>>

\* the loop is over: lines 575-581 return the latest answer
ResearchFallThrough ==
    /\ pc = "research_loop"
    /\ ~(iteration < max_iterations)
    /\ result' = DeepResearchResult(latest_answer, max_iterations, memory, "None")
    /\ pc' = "done"
    /\ UNCHANGED <<question, max_iterations, search_only, research, sub_questions,
                   expanded_query, answer, eval_result, calls, failures>>

\* _process_research_step: expand the query
ResearchExpand ==
    /\ pc = "research_expand"
    /\ \E raw \in ExpandResponses(current_query) :
         /\ Generated(raw)
         /\ expanded_query' = expand_search_query(raw, current_query).search_query
         /\ calls' = Append(calls, [op |-> "expand", step |-> iteration + 1,
                                    question |-> current_query, response |-> raw])
    /\ pc' = "research_search"
    /\ UNCHANGED <<question, max_iterations, search_only, research, sub_questions,
                   answer, eval_result, result>>

\* _process_research_step: search and record the search in memory
ResearchSearch ==
    /\ pc = "research_search"
    /\ \E results \in SearchResponses :
         memory' = [memory EXCEPT !.search_history =
                        Append(@, [query |-> current_query, results |-> results])]
    /\ calls' = Append(calls, [op |-> "search", step |-> iteration + 1,
                               query |-> expanded_query])
    /\ pc' = "research_answer"
    /\ UNCHANGED <<question, max_iterations, search_only, iteration, current_query,
                   latest_answer, sub_questions, expanded_query, answer, eval_result,
                   result, failures>>

\* _process_research_step: answer the query from the retrieved texts
ResearchAnswer ==
    /\ pc = "research_answer"
    /\ \E raw \in AnswerResponses(current_query) :
         /\ Generated(raw)
         /\ answer' = ParseText(raw)
         /\ memory' = [memory EXCEPT !.answer_attempts =
                           Append(@, [query |-> current_query, answer |-> ParseText(raw)])]
         /\ calls' = Append(calls, [op |-> "answer", step |-> iteration + 1,
                                    question |-> current_query,
                                    context |-> ContextOrPlaceholder(
                                                    last_context(memory.search_history)),
                                    response |-> raw])
    /\ pc' = "research_evaluate"
    /\ UNCHANGED <<question, max_iterations, search_only, iteration, current_query,
                   latest_answer, sub_questions, expanded_query, eval_result, result>>

\* _process_research_step: evaluate the answer against the main question; then
\* lines 535-573: beast mode in the final iteration, return on "complete", or
\* select the next question
ResearchEvaluate ==
    /\ pc = "research_evaluate"
    /\ \E raw \in EvaluateResponses(question, current_query) :
         \E e \in {ParseEvaluate(raw, question)} :
         \E next \in {after_research_step(iteration, max_iterations,
                                          e.status = "complete")} :
             /\ Generated(raw)
             /\ eval_result' = e
             /\ latest_answer' = answer
             /\ calls' = Append(calls, [op |-> "evaluate", step |-> iteration + 1,
                                        question |-> question, answer |-> answer,
                                        response |-> raw, verdict |-> e.status,
                                        suggested |-> e.suggested])
             /\ pc' = next
             /\ result' = IF next = "done"
                          THEN DeepResearchResult(answer, iteration + 1, memory,
                                                  beast_mode_on_complete)
                          ELSE result
             /\ iteration' = IF next = "research_loop" THEN iteration + 1 ELSE iteration
             /\ current_query' =
                    IF next = "research_loop"
                    THEN select_next_question(sub_questions, iteration + 1, e, question)
                    ELSE current_query
    /\ UNCHANGED <<question, max_iterations, search_only, memory, sub_questions,
                   expanded_query, answer>>

\* _generate_beast_mode_answer over the most recent context, and the return of
\* lines 550-555
ResearchBeast ==
    /\ pc = "research_beast"
    /\ \E raw \in BeastResponses :
         /\ Generated(raw)
         /\ calls' = Append(calls, [op |-> "beast", step |-> iteration + 1,
                                    question |-> question,
                                    full_context |-> ContextOrPlaceholder(
                                                         last_context(memory.search_history)),
                                    search_history |->
                                        Join(Queries(memory.search_history), "\n"),
                                    response |-> raw])
         /\ result' = DeepResearchResult(ParseText(raw), iteration + 1, memory,
                                         beast_mode_on_synthesis)
    /\ pc' = "done"
    /\ UNCHANGED <<question, max_iterations, search_only, research, sub_questions,
                   expanded_query, answer, eval_result>>

ResearchNext ==
    \/ ResearchDecompose \/ ResearchIterate \/ ResearchFallThrough \/ ResearchExpand
    \/ ResearchSearch \/ ResearchAnswer \/ ResearchEvaluate \/ ResearchBeast

ResearchSpec == ResearchInit /\ [][ResearchNext]_vars

(***************************************************************************)
(* Properties                                                              *)
(***************************************************************************)

\* the calls of one kind, as positions of the call log
CallsOf(op) == {i \in DOMAIN calls : calls[i].op = op}

\* the evaluate calls whose verdict was "complete"
CompleteVerdicts == {i \in CallsOf("evaluate") : calls[i].verdict = "complete"}

NoDuplicates(seq) == \A i, j \in DOMAIN seq : i # j => seq[i] # seq[j]

IsPrefix(a, b) == Len(a) <= Len(b) /\ SubSeq(b, 1, Len(a)) = a

\* the state right after the DECOMPOSE part of the first step
AfterDecompose == pc = "expand" /\ step = 1

\* C1: for max_iterations >= 1 a run takes at most max_iterations steps (gaps
\* dequeued), and the iterations of the returned result never exceed max_iterations
C1_IterationsBounded ==
    max_iterations >= 1 =>
        /\ step <= max_iterations
        /\ Len(visited_queries) <= max_iterations
        /\ pc = "done" => result.iterations <= max_iterations

\* a run that used up its iterations while gaps were still pending
C1_Witness ==
    /\ pc = "done" /\ max_iterations >= 2
    /\ result.iterations = max_iterations /\ Len(gaps) > 0

\* C2, amended: a run ends with exactly one final answer: that of a step whose
\* verdict was "complete", or that of beast mode; beast mode is called at most
\* once, and only after the loop exited (queue empty or step >= max_iterations)
\* with no "complete" verdict; step = max_iterations at that exit unless
\* max_iterations is negative, where the loop exits at step 0
C2_OneFinalAnswerAfterLoop ==
    /\ Cardinality(CallsOf("beast")) <= 1
    /\ pc # "done" => result = NoResult
    /\ CallsOf("beast") # {} =>
          /\ CompleteVerdicts = {}
          /\ Len(gaps) = 0 \/ step >= max_iterations
          /\ Len(gaps) = 0 \/ step = max_iterations \/ (max_iterations < 0 /\ step = 0)
    /\ pc = "done" =>
          /\ ~ENABLED Next
          /\ \/ /\ result.beast_mode = "None"
                /\ CallsOf("beast") = {}
                /\ CompleteVerdicts = {Len(calls)}
                /\ result.answer = calls[Len(calls)].answer
             \/ /\ result.beast_mode = "True"
                /\ CallsOf("beast") = {Len(calls)}
                /\ result.answer = ParseText(calls[Len(calls)].response)

\* C2 as claimed: a run ends with exactly one final answer: that of a step whose
\* verdict was "complete", or that of beast mode; beast mode is called at most
\* once, and only after the loop exited (queue empty or step = max_iterations)
\* with no "complete" verdict
C2_OneFinalAnswer ==
    /\ Cardinality(CallsOf("beast")) <= 1
    /\ pc # "done" => result = NoResult
    /\ CallsOf("beast") # {} =>
          /\ CompleteVerdicts = {}
          /\ Len(gaps) = 0 \/ step = max_iterations
    /\ pc = "done" =>
          /\ ~ENABLED Next
          /\ \/ /\ result.beast_mode = "None"
                /\ CallsOf("beast") = {}
                /\ CompleteVerdicts = {Len(calls)}
                /\ result.answer = calls[Len(calls)].answer
             \/ /\ result.beast_mode = "True"
                /\ CallsOf("beast") = {Len(calls)}
                /\ result.answer = ParseText(calls[Len(calls)].response)

\* a run that ended in beast mode after an evaluation that was not "complete"
C2_Witness ==
    /\ pc = "done" /\ result.beast_mode = "True"
    /\ CallsOf("evaluate") # {} /\ Len(gaps) > 0

\* C3: a "complete" verdict ends the run in that step: the evaluate call is the
\* last call of the run, no further gap is dequeued, and the result is returned
\* with the pending gaps left in the queue
C3_CompleteReturnsAtOnce ==
    \A i \in CompleteVerdicts :
        /\ i = Len(calls)
        /\ pc = "done"
        /\ result.beast_mode = "None"
        /\ result.iterations = calls[i].step
        /\ Len(visited_queries) = calls[i].step

\* a run returned on "complete" with two gaps still pending
C3_Witness == pc = "done" /\ CompleteVerdicts # {} /\ Len(gaps) >= 2

\* some action of Next can be taken: the run is at the loop test, or at a service
\* call that some response can answer
CanStep ==
    \/ pc = "loop"
    \/ pc = "decompose" /\ \E raw \in DecomposeResponses(question) : MayAnswer(raw)
    \/ pc = "expand" /\ \E raw \in ExpandResponses(current_question) : MayAnswer(raw)
    \/ pc = "search" /\ SearchResponses # {}
    \/ pc = "answer" /\ \E raw \in AnswerResponses(current_question) : MayAnswer(raw)
    \/ pc = "evaluate" /\ \E raw \in EvaluateResponses(question, current_question) :
                              MayAnswer(raw)
    \/ pc = "beast" /\ \E raw \in BeastResponses : MayAnswer(raw)

\* the steps a run may take: max_iterations, none when that is negative
StepLimit == IF max_iterations > 0 THEN max_iterations ELSE 0

\* C4: when every service call returns, a run reaches DONE: before DONE some step
\* is always possible, and a run makes at most StepLimit dequeues and
\* 4 * StepLimit + 1 service calls, whatever the evaluations suggest
C4_RunTerminates ==
    /\ pc # "done" => CanStep
    /\ Len(visited_queries) <= StepLimit
    /\ Len(calls) <= 4 * StepLimit + 1

\* a run that is DONE while follow-up questions were queued in every evaluation
C4_Witness ==
    /\ pc = "done" /\ step = MaxIterations
    /\ Len(gaps) >= 2
    /\ \A i \in DOMAIN gaps : ~InSeq(gaps[i], visited_queries)

\* C5: the gap queue never holds two equal entries
C5_QueueHasNoDuplicates == NoDuplicates(gaps)

\* decomposition returned one sub-question twice, and it is queued once
C5_Witness ==
    /\ AfterDecompose
    /\ ~NoDuplicates(sub_questions)
    /\ Len(gaps) >= 2

\* C6 as claimed: the gap queue never holds a question of the visited list
C6_NoVisitedQuestionPending ==
    \A i \in DOMAIN gaps : ~InSeq(gaps[i], visited_queries)

\* C6, amended: the only visited question the gap queue ever holds is the original
\* question (which the first step queues again behind the sub-questions)
C6_OnlyOriginalPendingAgain ==
    \A i \in DOMAIN gaps : InSeq(gaps[i], visited_queries) => gaps[i] = question

\* an evaluation suggested a visited sub-question, which was not queued again,
\* while the original question is pending for its second visit
C6_Witness ==
    /\ pc = "loop"
    /\ InSeq(question, gaps) /\ InSeq(question, visited_queries)
    /\ Truthy(eval_result.suggested)
    /\ eval_result.suggested.value # question
    /\ InSeq(eval_result.suggested.value, visited_queries)
    /\ ~InSeq(eval_result.suggested.value, gaps)

\* C7: strict FIFO: a step of the run either moves the head of the queue to the
\* end of the visited list, or leaves the visited list alone and at most appends
\* to the tail of the queue
C7_StrictFIFO ==
    [][\/ /\ Len(gaps) > 0
          /\ visited_queries' = Append(visited_queries, Head(gaps))
          /\ gaps' = Tail(gaps)
       \/ /\ visited_queries' = visited_queries
          /\ IsPrefix(gaps, gaps')]_vars

\* three gaps were dequeued and two more are pending
C7_Witness == Len(visited_queries) >= 3 /\ Len(gaps) >= 2

\* the positions of the sub-questions the first step queues: not the (visited)
\* original question, first occurrence only
QueuedPositions ==
    {i \in DOMAIN sub_questions :
        /\ sub_questions[i] # question
        /\ \A j \in 1..(i - 1) : sub_questions[j] # sub_questions[i]}

\* the k-th of them
QueuedPosition(k) ==
    CHOOSE i \in QueuedPositions : Cardinality({j \in QueuedPositions : j <= i}) = k

\* C8: after DECOMPOSE the queue holds the returned sub-questions that are neither
\* visited nor queued, in the order returned, and then the original question if
\* and only if the queue is not empty
C8_QueueAfterDecompose ==
    AfterDecompose =>
        LET n == Cardinality(QueuedPositions)
        IN  /\ Len(gaps) = IF n > 0 THEN n + 1 ELSE 0
            /\ \A k \in 1..n : gaps[k] = sub_questions[QueuedPosition(k)]
            /\ n > 0 => gaps[n + 1] = question

\* decomposition returned the original question and a repeated sub-question
C8_Witness ==
    /\ AfterDecompose
    /\ InSeq(question, sub_questions)
    /\ ~NoDuplicates(sub_questions)
    /\ Len(gaps) = 3

\* the response to the decompose prompt held no line that counts as a question
Unparsable ==
    /\ CallsOf("decompose") # {}
    /\ KeepQuestions(StrippedLines(Split(StripThinking(calls[1].response), "\n"))) = <<>>

\* C9 as claimed: with no parsable sub-question the queue after decomposition
\* is exactly the original question
C9_QueueIsOriginalQuestion == (AfterDecompose /\ Unparsable) => gaps = <<question>>

\* C9, amended: with no parsable sub-question decompose returns the original
\* question alone, and the queue after decomposition is empty
C9_QueueIsEmpty ==
    (AfterDecompose /\ Unparsable) => (sub_questions = <<question>> /\ gaps = <<>>)

\* the decomposition of "abc" was answered with a line that is no question
C9_Witness ==
    /\ AfterDecompose /\ Unparsable
    /\ question = "abc" /\ calls[1].response = "Some filler."

\* C10: no answer or evaluate call in the first step; in every later step the
\* answer is generated for the dequeued question from the context retrieved in
\* that step, and evaluated against the original question
C10_AnswerAndEvaluatePerStep ==
    /\ \A i \in CallsOf("answer") :
          /\ calls[i].step > 1
          /\ calls[i].question = visited_queries[calls[i].step]
          /\ calls[i].context = ContextOrPlaceholder(knowledge[calls[i].step].context)
    /\ \A i \in CallsOf("evaluate") :
          /\ calls[i].step > 1
          /\ calls[i].question = question
          /\ calls[i - 1].op = "answer"
          /\ calls[i - 1].step = calls[i].step
          /\ calls[i].answer = ParseText(calls[i - 1].response)
    /\ \A n \in 2..step :
          (n < step \/ pc \in {"loop", "beast", "done"}) =>
              /\ \E i \in CallsOf("answer") : calls[i].step = n
              /\ \E i \in CallsOf("evaluate") : calls[i].step = n

\* the answer to a sub-question was evaluated
C10_Witness ==
    \E i \in CallsOf("evaluate") :
        /\ visited_queries[calls[i].step] # question
        /\ calls[i - 1].context # NoInformation

\* C11: an evaluation changes the queue only by appending its suggested question
\* at the tail, and only when the verdict is "incomplete" and the suggestion is
\* present, not visited and not queued; in every other case the queue is unchanged
C11_OnlySuggestedAppended ==
    [][pc = "evaluate" =>
          IF /\ eval_result'.status = "incomplete"
             /\ Truthy(eval_result'.suggested)
             /\ ~InSeq(eval_result'.suggested.value, visited_queries)
             /\ ~InSeq(eval_result'.suggested.value, gaps)
          THEN gaps' = Append(gaps, eval_result'.suggested.value)
          ELSE gaps' = gaps]_vars

\* an "incomplete" evaluation queued its suggestion behind the pending gaps, and a
\* later one suggested a question that was pending, which left the queue alone
C11_Witness ==
    /\ pc = "loop" /\ step >= 3
    /\ eval_result.status = "incomplete"
    /\ \E i \in 1..(Len(gaps) - 1) : gaps[i] = eval_result.suggested.value
    /\ \E i \in CallsOf("evaluate") :
          /\ calls[i].step < step
          /\ calls[i].verdict = "incomplete"
          /\ Len(gaps) >= 2 /\ gaps[Len(gaps)] = calls[i].suggested.value

\* C12: with max_iterations = 1 a run takes exactly one step, makes no answer or
\* evaluate call, and goes from the first step straight to beast mode with exactly
\* one knowledge item, whatever decomposition returned
C12_SingleIterationGoesToBeast ==
    max_iterations = 1 =>
        /\ step <= 1
        /\ CallsOf("answer") = {} /\ CallsOf("evaluate") = {}
        /\ Cardinality(CallsOf("decompose")) <= 1
        /\ pc \in {"beast", "done"} =>
              /\ step = 1
              /\ Len(knowledge) = 1
              /\ knowledge[1].question = question
              /\ Len(calls) = IF pc = "done" THEN 4 ELSE 3
        /\ pc = "done" =>
              /\ result.beast_mode = "True"
              /\ result.iterations = 1
              /\ calls[4].op = "beast"

\* a run with max_iterations = 1 ended in beast mode while the sub-questions that
\* decomposition returned were still pending
C12_Witness ==
    /\ max_iterations = 1 /\ pc = "done"
    /\ Len(sub_questions) >= 2 /\ Len(gaps) >= 2
    /\ result.beast_mode = "True"

\* C15: the budget beast mode hands to trim_context_to_budget is
\* max(token_budget - usage, 1000) for the usage counter at loop exit, so the
\* synthesis context is trimmed against a usable budget of at least 500 tokens,
\* also when the usage exceeds token_budget
C15_SynthesisBudgetFloor ==
    /\ pc = "beast" => CallsOf("beast") = {}
    /\ \A i \in CallsOf("beast") :
          LET usage == calls[i].usage
              handed == IF token_budget - usage > 1000
                        THEN token_budget - usage ELSE 1000
          IN  /\ current_token_usage >= usage
              /\ \A j \in 1..(i - 1) : calls[j].op # "beast"
              /\ Len(knowledge) = 0 => calls[i].trim_budgets = <<>>
              /\ Len(knowledge) > 0 =>
                    /\ calls[i].trim_budgets = <<handed>>
                    /\ handed - reserved_tokens >= 500
                    /\ calls[i].full_context = trim_context_to_budget(knowledge, handed)

\* beast mode synthesized from three knowledge items after the usage had passed
\* the token budget
C15_Witness ==
    /\ pc = "done" /\ CallsOf("beast") # {}
    /\ Len(knowledge) = 3
    /\ calls[Len(calls)].usage > token_budget
    /\ calls[Len(calls)].trim_budgets = <<1000>>

\* C16 as claimed: within a run the token-usage counter never decreases, for any
\* max_iterations and any token_budget
C16_UsageNeverDecreases == [][current_token_usage' >= current_token_usage]_vars

\* trim_context_to_budget has returned
TrimReturned == pc = "returned" /\ fn = "trim_context_to_budget"

\* C13 as claimed: the text trim_context_to_budget returns, estimated again, never
\* exceeds the usable budget max(budget - 500, 500)
C13_TrimmedFitsUsableBudget ==
    TrimReturned =>
        estimate_tokens(fn_value) <=
            (IF fn_args.token_budget - 500 > 500 THEN fn_args.token_budget - 500 ELSE 500)

\* what entry i of the items costs: the estimate of its formatted text
EntryCost(items, i) == estimate_tokens(formatted_entry(items[i]))

RECURSIVE SumCosts(_, _)
SumCosts(items, chosen) ==
    IF chosen = {} THEN 0
    ELSE LET i == CHOOSE i \in chosen : TRUE
         IN  EntryCost(items, i) + SumCosts(items, chosen \ {i})

\* chosen is what a walk from the most recent item to the oldest includes: an item
\* is in exactly when its cost and that of the more recent items included fit
IncludedNewestFirst(items, chosen, usable) ==
    \A i \in DOMAIN items :
        i \in chosen <=>
            EntryCost(items, i) + SumCosts(items, {j \in chosen : j > i}) <= usable

\* the formatted entries of the chosen items, oldest first, a blank line between
RECURSIVE EntriesOf(_, _)
EntriesOf(items, chosen) ==
    IF chosen = {} THEN ""
    ELSE LET i == CHOOSE i \in chosen : \A j \in chosen : i <= j
         IN  IF chosen = {i} THEN formatted_entry(items[i])
             ELSE formatted_entry(items[i]) \o "\n\n" \o EntriesOf(items, chosen \ {i})

\* C14: trim_context_to_budget walks the items from the most recent to the oldest,
\* includes an item whole exactly when the running total plus its cost stays within
\* the usable budget (skipping it otherwise and going on to older items), and
\* returns the included entries in chronological order; with budget 1000 and two
\* items of 400 tokens each it returns the most recent one alone
C14_NewestFirstWholeItems ==
    TrimReturned =>
        LET items == fn_args.context_items
            usable == IF fn_args.token_budget - 500 > 500
                      THEN fn_args.token_budget - 500 ELSE 500
        IN  /\ \E chosen \in SUBSET DOMAIN items :
                  /\ IncludedNewestFirst(items, chosen, usable)
                  /\ fn_value = EntriesOf(items, chosen)
            /\ ( /\ fn_args.token_budget = 1000 /\ Len(items) = 2
                 /\ EntryCost(items, 1) = 400 /\ EntryCost(items, 2) = 400 )
               => fn_value = formatted_entry(items[2])

\* an item in the middle did not fit and was skipped, and the older item before it
\* was still included
C14_Witness ==
    /\ TrimReturned
    /\ Len(fn_args.context_items) = 3
    /\ fn_value = formatted_entry(fn_args.context_items[1]) \o "\n\n"
                     \o formatted_entry(fn_args.context_items[3])
    /\ EntryCost(fn_args.context_items, 2) <= 500

\* evaluate mode has returned
EvaluateReturned == pc = "returned" /\ fn = "evaluate"

\* c and d are the same character, or the same letter in different case
SameLetter(c, d) ==
    \/ c = d
    \/ \E k \in 1..Len(UpperChars) :
          {c, d} = {CharAt(UpperChars, k), CharAt(LowerChars, k)}

\* word occurs in text, whatever the case of the letters
OccursAnyCase(text, word) ==
    \E i \in 1..(Len(text) - Len(word) + 1) :
        \A j \in 1..Len(word) : SameLetter(CharAt(text, i + j - 1), CharAt(word, j))

\* word occurs in text as written
Occurs(text, word) ==
    \E i \in 1..(Len(text) - Len(word) + 1) : SubSeq(text, i, i + Len(word) - 1) = word

\* C17: evaluate returns "complete" exactly when the response without its thinking
\* segment contains "satisfactory" in any case or "PASS" as written, and
\* "incomplete" otherwise; suggested is absent when the status is "complete" and a
\* non-empty text when it is "incomplete"
C17_EvaluateVerdict ==
    EvaluateReturned =>
        LET text == StripThinking(fn_args.raw)
        IN  /\ fn_value.status \in {"complete", "incomplete"}
            /\ fn_value.status = "complete" <=>
                  (OccursAnyCase(text, "satisfactory") \/ Occurs(text, "PASS"))
            /\ fn_value.status = "complete" => fn_value.suggested = None
            /\ fn_value.status = "incomplete" =>
                  /\ ~fn_value.suggested.isNone
                  /\ fn_value.suggested.value # ""

\* a response was "complete" for a capitalised "Satisfactory" alone, its thinking
\* segment dropped
C17_Witness ==
    /\ EvaluateReturned
    /\ fn_value.status = "complete"
    /\ Occurs(fn_args.raw, "</think>")
    /\ ~Occurs(StripThinking(fn_args.raw), "PASS")
    /\ ~Occurs(StripThinking(fn_args.raw), "satisfactory")

\* the least element of a set of line numbers
FirstOf(S) == CHOOSE i \in S : \A j \in S : i <= j

\* the lines that contain "suggest" in any case and a colon
SuggestLines(lines) ==
    {i \in DOMAIN lines : OccursAnyCase(lines[i], "suggest") /\ Occurs(lines[i], ":")}

\* the lines longer than 15 characters that contain a question mark
QuestionLines(lines) == {i \in DOMAIN lines : Occurs(lines[i], "?") /\ Len(lines[i]) > 15}

\* the text after the first colon of a line, without the spaces around it
AfterColon(line) ==
    LET k == FirstOf({i \in 1..Len(line) : CharAt(line, i) = ":"})
    IN  Strip(SubSeq(line, k + 1, Len(line)))

\* C18: the suggestion of an "incomplete" evaluation is (a) the text after the
\* first colon of the first line with "suggest" and a colon; when that yields
\* nothing, (b) the first line with a question mark and more than 15 characters;
\* when that yields nothing either, (c) "more details about " and the question
C18_SuggestionPriority ==
    (EvaluateReturned /\ fn_value.status = "incomplete") =>
        LET lines == Split(StripThinking(fn_args.raw), "\n")
            byColon == IF SuggestLines(lines) = {} THEN ""
                       ELSE AfterColon(lines[FirstOf(SuggestLines(lines))])
            byMark == IF QuestionLines(lines) = {} THEN ""
                      ELSE Strip(lines[FirstOf(QuestionLines(lines))])
        IN  fn_value.suggested.value =
                IF byColon # "" THEN byColon
                ELSE IF byMark # "" THEN byMark
                ELSE "more details about " \o fn_args.question

\* the first "suggest" line had nothing after its colon, so the question line was
\* taken although a later "suggest" line had a text
C18_Witness ==
    /\ EvaluateReturned /\ fn_value.status = "incomplete"
    /\ fn_args.raw = "Suggest:  \nSuggestion: dig into B\nWhat about the details?"
    /\ fn_value.suggested.value = "What about the details?"

\* decompose mode has returned
DecomposeReturned == pc = "returned" /\ fn = "decompose"

\* a line opens with one or more digits and a dot
Numbered(line) ==
    \E k \in 1..Len(line) :
        /\ \A j \in 1..k : CharAt(line, j) \in {"0", "1", "2", "3", "4", "5", "6", "7", "8", "9"}
        /\ CharAt(line, k + 1) = "."

\* the lines of the response that are not blank, without the spaces around them
NonBlankLines(text) ==
    LET lines == Split(text, "\n")
    IN  SelectSeq([i \in DOMAIN lines |-> Strip(lines[i])], LAMBDA line : Len(line) > 0)

\* C19: decompose keeps exactly the non-blank lines that open with digits and a
\* dot, or that hold a question mark and are longer than 10 characters, in the
\* order of the response, and returns the question alone when no line qualifies:
\* never an empty list
C19_DecomposeKeepsQuestions ==
    DecomposeReturned =>
        LET lines == NonBlankLines(StripThinking(fn_args.raw))
            kept == {i \in DOMAIN lines :
                        Numbered(lines[i]) \/ (Occurs(lines[i], "?") /\ Len(lines[i]) > 10)}
            out == fn_value.sub_questions
        IN  /\ Len(out) >= 1
            /\ kept = {} => out = <<fn_args.question>>
            /\ kept # {} =>
                  /\ Len(out) = Cardinality(kept)
                  /\ \A i \in kept : out[Cardinality({j \in kept : j <= i})] = lines[i]

\* of three lines the numbered one and the long question were kept, not the
\* question of ten characters between them
C19_Witness ==
    /\ DecomposeReturned
    /\ fn_args.raw = "12. What is A\nWhy is it?\n  What is B in detail?  "
    /\ fn_value.sub_questions = <<"12. What is A", "What is B in detail?">>

C21_AnswerNeverEmpty ==
    /\ \A i \in CallsOf("evaluate") : calls[i].answer # ""
    /\ pc = "done" => result.answer # ""

EmptyRetrievals == {i \in CallsOf("search") : search_history[calls[i].step].results = <<>>}

\* C23: a step whose retrieval returns zero matches is no error: its context is
\* the empty string, the step is recorded in knowledge and search history, its
\* answer prompt is given the "No relevant information found." placeholder, and
\* the run goes on
C23_EmptyRetrievalIsNoError ==
    \A i \in EmptyRetrievals :
        LET n == calls[i].step
        IN  /\ Len(knowledge) >= n /\ Len(search_history) >= n
            /\ knowledge[n] = [question |-> visited_queries[n], context |-> ""]
            /\ search_history[n] = [query |-> visited_queries[n], results |-> <<>>]
            /\ i < Len(calls) =>
                  IF n = 1
                  THEN calls[i + 1].op \in {"expand", "beast"}
                  ELSE /\ calls[i + 1].op = "answer"
                       /\ calls[i + 1].step = n
                       /\ calls[i + 1].context = "No relevant information found."
            /\ pc # "done" => CanStep

\* a step retrieved nothing, its answer was generated from the placeholder and
\* judged incomplete, and the next step ran
C23_Witness ==
    \E i \in EmptyRetrievals :
        /\ calls[i].step = 2
        /\ \E j \in CallsOf("answer") :
              calls[j].step = 2 /\ calls[j].context = NoInformation
        /\ \E j \in CallsOf("search") : calls[j].step = 3

\* the run ended in beast mode: its last call is the synthesis, whose text is the
\* answer of the result
Synthesized ==
    /\ CallsOf("beast") = {Len(calls)}
    /\ result.answer = ParseText(calls[Len(calls)].response)

\* the run ended on a "complete" verdict: its last call is that evaluation, and
\* the answer of the result is the answer evaluated
ReturnedOnComplete ==
    /\ CallsOf("beast") = {}
    /\ calls[Len(calls)].op = "evaluate"
    /\ calls[Len(calls)].verdict = "complete"
    /\ result.answer = calls[Len(calls)].answer

\* C24 as claimed: the synthesis flag of the result is true exactly when the
\* answer was produced by beast mode, and false when it came from a step whose
\* verdict was "complete"
C24_FlagTrueOrFalse ==
    pc = "done" =>
        /\ result.beast_mode = "True" <=> Synthesized
        /\ ReturnedOnComplete => result.beast_mode = "False"

\* C24, amended: the flag is True exactly when the answer was produced by beast
\* mode, and None (not False) when it came from a step whose verdict was "complete"
C24_FlagTrueOrNone ==
    pc = "done" =>
        /\ result.beast_mode \in {"True", "None"}
        /\ result.beast_mode = "True" <=> Synthesized
        /\ result.beast_mode = "None" <=> ReturnedOnComplete

\* a run returned the answer of its third step, flagged None
C24_Witness ==
    /\ pc = "done" /\ step = 3
    /\ ReturnedOnComplete /\ result.beast_mode = "None"

\* C25: a supplied progress callback is invoked exactly once per step, after the
\* step's gap was dequeued and marked visited and before any service call of the
\* step; the number of invocations is the iterations of the result
C25_CallbackOncePerStep ==
    /\ ~progress_callback => progress = <<>>
    /\ progress_callback =>
          /\ Len(progress) = step
          /\ \A k \in DOMAIN progress :
                /\ progress[k].step = k - 1
                /\ progress[k].visited = SubSeq(visited_queries, 1, k)
                /\ ~InSeq(visited_queries[k], progress[k].gaps)
                /\ \A i \in DOMAIN calls :
                      calls[i].step >= k <=> i > progress[k].calls
          /\ pc = "done" => Len(progress) = result.iterations

\* a run with a callback took three steps and ended
C25_Witness ==
    /\ progress_callback /\ pc = "done"
    /\ Len(progress) = 3
    /\ progress[3].calls >= 7

\* C26: the items trim_context_to_budget selects are a maximal subset: the cost of
\* each item left out, added to the total cost of the items included, exceeds the
\* usable budget
C26_SelectionIsMaximal ==
    TrimReturned =>
        LET items == fn_args.context_items
            usable == IF fn_args.token_budget - 500 > 500
                      THEN fn_args.token_budget - 500 ELSE 500
            selections == {chosen \in SUBSET DOMAIN items :
                              fn_value = EntriesOf(items, chosen)}
        IN  /\ selections # {}
            /\ \A chosen \in selections :
                  /\ SumCosts(items, chosen) <= usable
                  /\ \A i \in DOMAIN items \ chosen :
                        SumCosts(items, chosen) + EntryCost(items, i) > usable

\* of three items the oldest and the most recent were selected; the one between
\* them would have fitted alone but not with the two selected
C26_Witness ==
    /\ TrimReturned
    /\ fn_args.token_budget = 1000
    /\ Len(fn_args.context_items) = 3
    /\ EntryCost(fn_args.context_items, 2) = 400
    /\ fn_value = EntriesOf(fn_args.context_items, {1, 3})
    /\ fn_value # EntriesOf(fn_args.context_items, {2})

\* the calls of the run follow the order of the state machine: a decompose call is
\* the first call and belongs to step 1; the first call of a later step is its
\* expand; in a step expand is followed by search, search by answer and answer by
\* evaluate; a beast call is the last call
CallOrder ==
    \A i \in DOMAIN calls :
        /\ calls[i].op = "decompose" => (i = 1 /\ calls[i].step = 1)
        /\ calls[i].op = "expand" =>
              IF calls[i].step = 1
              THEN i = 2 /\ calls[1].op = "decompose"
              ELSE /\ i > 1
                   /\ calls[i - 1].step = calls[i].step - 1
                   /\ calls[i - 1].op = IF calls[i].step = 2 THEN "search" ELSE "evaluate"
        /\ calls[i].op = "search" =>
              (i > 1 /\ calls[i - 1].op = "expand" /\ calls[i - 1].step = calls[i].step)
        /\ calls[i].op = "answer" =>
              (i > 1 /\ calls[i - 1].op = "search" /\ calls[i - 1].step = calls[i].step)
        /\ calls[i].op = "evaluate" =>
              (i > 1 /\ calls[i - 1].op = "answer" /\ calls[i - 1].step = calls[i].step)
        /\ calls[i].op = "beast" => i = Len(calls)

\* C27 as claimed: every run calls decompose exactly once, in step 1 and before
\* that step's expand, and its calls follow the order of the state machine
C27_DecomposeExactlyOnce ==
    /\ CallOrder
    /\ pc = "done" => Cardinality(CallsOf("decompose")) = 1

\* C27, amended: the calls follow the order of the state machine, and decompose is
\* called exactly once in every run that takes a step; a run that takes no step
\* (max_iterations <= 0) makes the synthesis call alone
C27_DecomposeOncePerSteppingRun ==
    /\ CallOrder
    /\ Cardinality(CallsOf("decompose")) <= 1
    /\ (step >= 1 /\ pc # "decompose") => Cardinality(CallsOf("decompose")) = 1
    /\ step = 0 => CallsOf("decompose") = {}
    /\ (pc = "done" /\ max_iterations <= 0) =>
          (Len(calls) = 1 /\ calls[1].op = "beast")

\* a run of three steps ended in beast mode after twelve calls
C27_Witness ==
    /\ pc = "done" /\ step = 3
    /\ Len(calls) = 12
    /\ calls[1].op = "decompose" /\ calls[12].op = "beast"

\* one entry per step, in step order, in the visited list, the search history and
\* the knowledge; one entry per step after the first in the research trail
StepRecords(n, visited, history, know, rtrail) ==
    /\ Len(visited) = n /\ Len(history) = n /\ Len(know) = n
    /\ Len(rtrail) = IF n - 1 > 0 THEN n - 1 ELSE 0
    /\ \A k \in 1..n : history[k].query = visited[k] /\ know[k].question = visited[k]
    /\ \A k \in DOMAIN rtrail : rtrail[k].question = visited[k + 1]

\* C28: at the start of every loop iteration and in every returned result, the
\* visited list, the search history and the knowledge have exactly step entries
\* and the research trail max(step - 1, 0); the iterations of the result equal
\* the length of its visited list and of its search history
C28_OneRecordPerStep ==
    /\ pc \in {"loop", "beast", "done"} =>
          StepRecords(step, visited_queries, search_history, knowledge, research_trail)
    /\ pc = "done" =>
          /\ StepRecords(result.iterations, result.gap_questions, result.search_history,
                         knowledge, result.research_trail)
          /\ result.iterations = Len(result.gap_questions)
          /\ result.iterations = Len(result.search_history)

\* a run returned on a "complete" verdict in its third step
C28_Witness ==
    /\ pc = "done" /\ result.beast_mode = "None"
    /\ result.iterations = 3
    /\ Len(result.research_trail) = 2

\* C29 as claimed: when the generation call behind expand fails, expand falls
\* back to the dequeued question, so no search query is empty because of it
C29_ExpandFallsBackToQuestion ==
    \A i \in CallsOf("search") :
        /\ calls[i].query # ""
        /\ calls[i - 1].response = "" => calls[i].query = visited_queries[calls[i].step]

\* C30 as claimed: the context _perform_search returns is estimated at no more
\* than token_budget // 2 tokens, also when it was truncated
C30_ContextWithinHalfBudget ==
    /\ estimate_tokens(context.context_str) <= token_budget \div 2
    /\ \A k \in DOMAIN knowledge :
          estimate_tokens(knowledge[k].context) <= token_budget \div 2

\* the text retrieved in step k: the retrieved records' texts, two newlines between
Retrieved(k) == Join(Texts(search_history[k].results), "\n\n")

DequeuesOf(q) == {k \in DOMAIN visited_queries : visited_queries[k] = q}

NothingNewDecomposed ==
    /\ CallsOf("decompose") # {}
    /\ \A i \in DOMAIN sub_questions : sub_questions[i] = question

\* C33: when decomposition returns no sub-question different from the original
\* question, the run takes exactly one step, makes no answer or evaluate call and
\* ends in the Synthesis Fallback, whatever max_iterations >= 1 is; so an answer
\* that is not a synthesis is returned after two steps at least
C33_NothingNewIsOneStep ==
    /\ NothingNewDecomposed =>
          /\ step = 1 /\ gaps = <<>>
          /\ CallsOf("answer") = {} /\ CallsOf("evaluate") = {}
          /\ pc # "answer" /\ pc # "evaluate"
          /\ pc = "done" => result.beast_mode = "True" /\ result.iterations = 1
    /\ (pc = "done" /\ result.beast_mode = "None") => result.iterations >= 2

\* a run allowed three steps ended after one, its decomposition having returned
\* the original question only
C33_Witness ==
    /\ pc = "done" /\ max_iterations = 3
    /\ NothingNewDecomposed
    /\ sub_questions = <<question>>
    /\ visited_queries = <<question>>
    /\ CallsOf("beast") # {}

\* C34: the token budget never stops the loop: at the loop test the run takes
\* another step exactly when the queue is non-empty and step < max_iterations, and
\* leaves for the synthesis exactly when not, whatever the usage counter is; steps
\* go on while the counter is above token_budget
C34_BudgetNeverStopsLoop ==
    pc = "loop" =>
        /\ (ENABLED Dequeue) <=> (Len(gaps) > 0 /\ step < max_iterations)
        /\ (ENABLED ExitLoop) <=> ~(Len(gaps) > 0 /\ step < max_iterations)

\* a third step has just begun with the usage counter above the budget since
\* before its gap was dequeued
C34_Witness ==
    /\ pc = "expand" /\ step = 3
    /\ Cardinality(CallsOf("expand")) = 2
    /\ current_token_usage > token_budget

\* was the context of step k cut to the half-budget cap by _perform_search
Truncated(k) == estimate_tokens(Retrieved(k)) > token_budget \div 2

\* the knowledge items whose context was not cut, in order
Untruncated ==
    LET RECURSIVE Keep(_)
        Keep(k) == IF k > Len(knowledge) THEN <<>>
                   ELSE (IF Truncated(k) THEN <<>> ELSE <<knowledge[k]>>) \o Keep(k + 1)
    IN  Keep(1)

\* C35: for token_budget >= 1000 a knowledge item whose context was cut to the
\* half-budget cap costs more than the usable budget of the synthesis and is left
\* out of the synthesis context, which is what the other items alone would give;
\* when every item was cut the synthesis context is empty
C35_TruncatedItemsLeftOut ==
    token_budget >= 1000 =>
        \A i \in CallsOf("beast") :
            \A b \in {calls[i].trim_budgets} :
                Len(b) > 0 =>
                    /\ \A k \in DOMAIN knowledge :
                          Truncated(k) =>
                              estimate_tokens(formatted_entry(knowledge[k]))
                                  > available_budget(b[1])
                    /\ calls[i].full_context
                          = Join(Reverse(included_contexts(Reverse(Untruncated), 1, 0,
                                                           available_budget(b[1]))), "\n\n")
                    /\ (\A k \in DOMAIN knowledge : Truncated(k))
                          => calls[i].full_context = ""

\* a synthesis over three items, the second one cut and left out, the others in
C35_Witness ==
    /\ pc = "done" /\ token_budget = 3000
    /\ Len(knowledge) = 3
    /\ ~Truncated(1) /\ Truncated(2) /\ ~Truncated(3)
    /\ \E i \in CallsOf("beast") :
          /\ calls[i].full_context # ""
          /\ Len(calls[i].full_context) < Len(knowledge[2].context)

\* C36: with max_iterations <= 0 the run takes no step and makes no decompose,
\* expand, retrieve, answer or evaluate call; its one call is the synthesis, over
\* no knowledge and the context "No relevant information found.", and it returns
\* iterations = 0, an empty visited list and the synthesis flag
C36_NoStepWithoutIterations ==
    max_iterations <= 0 =>
        /\ step = 0 /\ visited_queries = <<>> /\ knowledge = <<>>
        /\ search_history = <<>> /\ research_trail = <<>>
        /\ pc \in {"loop", "beast", "done"}
        /\ \A i \in DOMAIN calls : calls[i].op = "beast"
        /\ pc = "done" =>
              /\ Len(calls) = 1
              /\ calls[1].full_context = "No relevant information found."
              /\ calls[1].trim_budgets = <<>>
              /\ calls[1].search_history = ""
              /\ result.iterations = 0
              /\ result.gap_questions = <<>>
              /\ result.beast_mode = "True"
              /\ result.answer = ParseText(calls[1].response)

\* a run with a negative max_iterations has returned the synthesized answer
C36_Witness ==
    /\ pc = "done" /\ max_iterations < 0
    /\ result.answer = "A comprehensive answer."
    /\ CallsOf("beast") = {1}

\* the questions a run processed, in order: those of its expand calls
Processed == [i \in 1..Cardinality(CallsOf("expand")) |->
                 calls[CHOOSE j \in CallsOf("expand") : calls[j].step = i].question]

LastEvaluate == CHOOSE i \in CallsOf("evaluate") : \A j \in CallsOf("evaluate") : j <= i

\* C38: deep_research returns the beast-mode answer exactly when the run reaches
\* its final iteration (iteration == max_iterations - 1), also when the verdict of
\* that iteration is "complete"; a step's own answer is returned only on a
\* "complete" verdict of an earlier iteration
C38_BeastExactlyInFinalIteration ==
    /\ \A i \in CallsOf("evaluate") :
          calls[i].step = max_iterations =>
              \/ pc = "research_beast" /\ i = Len(calls)
              \/ i + 1 = Len(calls) /\ calls[i + 1].op = "beast" /\ pc = "done"
    /\ \A i \in CallsOf("beast") : calls[i].step = max_iterations
    /\ (pc = "done" /\ max_iterations >= 1) =>
          /\ result.beast_mode = "True" <=> result.iterations = max_iterations
          /\ result.beast_mode = "True" <=> CallsOf("beast") # {}
          /\ result.beast_mode = "True" =>
                result.answer = ParseText(calls[Len(calls)].response)
          /\ result.beast_mode = "None" =>
                /\ LastEvaluate = Len(calls)
                /\ calls[LastEvaluate].verdict = "complete"
                /\ calls[LastEvaluate].step < max_iterations
                /\ result.answer = calls[LastEvaluate].answer
                /\ result.iterations = calls[LastEvaluate].step

\* the verdict of the final iteration was "complete" and the run still returned
\* the beast-mode answer
C38_Witness ==
    /\ pc = "done" /\ max_iterations = 2
    /\ result.beast_mode = "True"
    /\ calls[LastEvaluate].verdict = "complete"
    /\ result.answer = "A comprehensive answer."
    /\ result.answer # calls[LastEvaluate].answer

\* C39: for max_iterations >= 1 deep_research returns from inside its loop, with
\* iterations in 1..max_iterations; the return after the loop is never reached
C39_FallThroughNeverReached ==
    max_iterations >= 1 =>
        /\ iteration < max_iterations
        /\ ~(ENABLED ResearchFallThrough)
        /\ pc = "done" =>
              /\ result.iterations \in 1..max_iterations
              /\ result.iterations = iteration + 1
              /\ calls[Len(calls)].op \in {"evaluate", "beast"}

\* a run allowed three iterations returned in its third
C39_Witness ==
    /\ pc = "done" /\ fn = "deep_research"
    /\ max_iterations = 3 /\ result.iterations = 3
    /\ iteration = 2

(***************************************************************************)
(* Liveness, when every service call returns                               *)
(***************************************************************************)

FairSpec == Spec /\ WF_vars(Next)

Termination == <>(pc = "done")

====
